---- MODULE Spec2Model ----
(***************************************************************************)
(* Verification model of carlwr/cobraman.                                  *)
(*                                                                         *)
(* Part 1: internal/tests/fjoin.Join, the path-sanitizing join.            *)
(* Part 2: the temp-dir helpers of the tests, which use Join.              *)
(* Part 3: cobraman.GenerateDocs.                                          *)
(*                                                                         *)
(* A Go string is modelled as a sequence of one-character strings, so      *)
(* "a<b" is <<"a", "<", "b">>.  Join is modelled as the state machine of   *)
(* one call: JoinEnter (lines 17-20), one JoinPart step per iteration of   *)
(* the outer range loop (lines 22-38), JoinReturn (lines 40-44).           *)
(***************************************************************************)
EXTENDS Integers, Sequences, FiniteSets, TLC

\* one call of Join: its arguments, the place it has reached and its locals
VARIABLES parts, pc, idx, namified, isAbs, joined, err

\* Join called from several goroutines: the frame of each goroutine's call
VARIABLES calls

\* one test that takes its temporary directory from the temp-dir helper
VARIABLES test

\* one call of GenerateDocs: the command tree and the arguments it is called
\* with, the Options value, the stack of the recursive calls, the files it
\* has tried to create and what the call returned
VARIABLES cmdTree, docArgs, opts, stack, attempts, ret

\* the functions of the package that keep nothing between calls, each with
\* its arguments and what it gave: validate called again and again on one
\* Options value; the sections and the see-also list of one page; one call
\* of Backslashify; Join next to its earlier variants and to itself
VARIABLES valid, page, text, cmp

joinVars == <<parts, pc, idx, namified, isAbs, joined, err>>

fnVars == <<valid, page, text, cmp>>

docVars == <<cmdTree, docArgs, opts, stack, attempts, ret>>

vars == <<joinVars, calls, test, docVars, fnVars>>

\* the variables a part of the model does not use stay at these values
JoinIdle ==
  /\ parts = <<>> /\ pc = "idle" /\ idx = 0 /\ namified = <<>>
  /\ isAbs = FALSE /\ joined = <<>> /\ err = "nil"

CallsIdle == calls = <<>>

TestIdle == test = <<>>

DocsIdle ==
  /\ cmdTree = <<>> /\ docArgs = <<>> /\ opts = <<>>
  /\ stack = <<>> /\ attempts = <<>> /\ ret = "idle"

ValidIdle == valid = <<>>

PageIdle == page = <<>>

TextIdle == text = <<>>

CmpIdle == cmp = <<>>

FnIdle == ValidIdle /\ PageIdle /\ TextIdle /\ CmpIdle

(***************************************************************************)
(* Bounds of the model.                                                    *)
(***************************************************************************)
\* largest number of arguments of one call
MaxParts == 3
\* largest total number of characters over all arguments of a call with
\* several arguments
MaxTotalLen == 4
\* largest number of characters of the argument of a one-argument call
MaxSegLen == 5

\* the characters a one-argument call draws from: two safe characters (a
\* letter and the space), a reserved character, the separator, the
\* replacement character and the dot
Alphabet == {"a", " ", "<", "/", "_", "."}

\* the characters calls with several arguments draw from
MultiAlphabet == {"a", "<", "/", "."}

(***************************************************************************)
(* String helpers.                                                         *)
(***************************************************************************)
Min(a, b) == IF a < b THEN a ELSE b

Last(s) == s[Len(s)]

Front(s) == SubSeq(s, 1, Len(s) - 1)

\* the argument sequence that holds the characters of flat, cut into
\* Len(cuts) + 1 arguments after the positions cuts (an argument is empty
\* where two cuts coincide)
CutAt(flat, cuts) ==
  LET p == Len(cuts) + 1
      from(i) == IF i = 1 THEN 1 ELSE cuts[i - 1] + 1
      to(i) == IF i = p THEN Len(flat) ELSE cuts[i]
  IN [i \in 1..p |-> SubSeq(flat, from(i), to(i))]

NonDecreasing(cuts) ==
  \A i \in 1..(Len(cuts) - 1) : cuts[i] <= cuts[i + 1]

\* the argument sequences of the calls the model makes: up to MaxParts
\* arguments over MultiAlphabet with at most MaxTotalLen characters in all,
\* and one argument over Alphabet with at most MaxSegLen characters
IsInput(ps) ==
  \/ ps = <<>>
  \/ \E n \in 0..MaxTotalLen : \E flat \in [1..n -> MultiAlphabet] :
       \E p \in 1..MaxParts : \E cuts \in [1..(p - 1) -> 0..n] :
         NonDecreasing(cuts) /\ ps = CutAt(flat, cuts)
  \/ \E n \in 0..MaxSegLen : \E s \in [1..n -> Alphabet] : ps = <<s>>

(***************************************************************************)
(* Program constants.                                                      *)
(***************************************************************************)
\* filepath.Separator on the platforms the code splits for (it splits on "/")
Separator == "/"

\* filenamify.Options{Replacement: "_"}
Replacement == "_"

\* filenamify's default length limit of one file name
MAX_FILENAME_LENGTH == 100

(***************************************************************************)
(* path/filepath and strings, as Join uses them (Unix build).              *)
(***************************************************************************)
\* filepath.IsAbs: strings.HasPrefix(path, "/")
IsAbs(path) == Len(path) > 0 /\ path[1] = Separator

\* the element of path that starts at r: the characters up to the next
\* separator
RECURSIVE ElemEnd(_, _)
ElemEnd(path, r) ==
  IF r > Len(path) \/ path[r] = Separator THEN r ELSE ElemEnd(path, r + 1)

\* out.w-- ; for out.w > dotdot && out[out.w] != '/' { out.w-- }
\* (w counts the characters kept; the character looked at is out[w + 1])
RECURSIVE Backtrack(_, _, _)
Backtrack(out, w, dotdot) ==
  IF w > dotdot /\ out[w + 1] # Separator
    THEN Backtrack(out, w - 1, dotdot)
    ELSE SubSeq(out, 1, w)

\* the loop of filepath.Clean: r is the 1-based index of the next character
\* to read, out the buffer written so far, dotdot the length of the prefix
\* that ".." may not remove
RECURSIVE CleanLoop(_, _, _, _, _)
CleanLoop(path, r, out, dotdot, rooted) ==
  LET n == Len(path) IN
  IF r > n THEN out
  ELSE IF path[r] = Separator
    THEN CleanLoop(path, r + 1, out, dotdot, rooted)
  ELSE IF path[r] = "." /\ (r = n \/ path[r + 1] = Separator)
    THEN CleanLoop(path, r + 1, out, dotdot, rooted)
  ELSE IF path[r] = "." /\ r < n /\ path[r + 1] = "."
            /\ (r + 1 = n \/ path[r + 2] = Separator)
    THEN IF Len(out) > dotdot
           THEN CleanLoop(path, r + 2,
                          Backtrack(out, Len(out) - 1, dotdot), dotdot, rooted)
         ELSE IF ~rooted
           THEN LET o2 == (IF Len(out) > 0 THEN out \o <<Separator>> ELSE out)
                            \o <<".", ".">>
                IN CleanLoop(path, r + 2, o2, Len(o2), rooted)
         ELSE CleanLoop(path, r + 2, out, dotdot, rooted)
  ELSE LET e  == ElemEnd(path, r)
           o2 == IF (rooted /\ Len(out) # 1) \/ (~rooted /\ Len(out) # 0)
                   THEN out \o <<Separator>> ELSE out
       IN CleanLoop(path, e, o2 \o SubSeq(path, r, e - 1), dotdot, rooted)

\* filepath.Clean: the shortest path equivalent to path by lexical processing
Clean(path) ==
  IF path = <<>> THEN <<".">>
  ELSE LET rooted == path[1] = Separator
           out == IF rooted THEN CleanLoop(path, 2, <<Separator>>, 1, TRUE)
                            ELSE CleanLoop(path, 1, <<>>, 0, FALSE)
       IN IF out = <<>> THEN <<".">> ELSE out

\* strings.Split(s, "/"): the pieces of s between separators (one more
\* piece than there are separators)
RECURSIVE Split(_)
Split(s) ==
  LET e == ElemEnd(s, 1) IN
  IF e > Len(s) THEN <<s>>
  ELSE <<SubSeq(s, 1, e - 1)>> \o Split(SubSeq(s, e + 1, Len(s)))

\* strings.Join(elems, "/")
RECURSIVE StringsJoin(_)
StringsJoin(elems) ==
  IF elems = <<>> THEN <<>>
  ELSE IF Len(elems) = 1 THEN elems[1]
  ELSE elems[1] \o <<Separator>> \o StringsJoin(Tail(elems))

\* filepath.Join: the elements from the first non-empty one on, joined with
\* the separator and cleaned; the empty string when there is none
RECURSIVE FilepathJoin(_)
FilepathJoin(elems) ==
  IF elems = <<>> THEN <<>>
  ELSE IF elems[1] # <<>> THEN Clean(StringsJoin(elems))
  ELSE FilepathJoin(Tail(elems))

(***************************************************************************)
(* github.com/flytam/filenamify, as Join calls it: Filenamify(elem, opts)  *)
(* with opts.Replacement = "_" and opts.MaxLength left at zero.  The       *)
(* sanitizer replaces every reserved character by the replacement, then    *)
(* collapses repeated replacements and strips an outer replacement; it     *)
(* cannot tell a "_" it wrote from a "_" of its input.                     *)
(***************************************************************************)
\* the control characters a model string can hold (of \x00-\x1F)
ControlChars == {"\t", "\n", "\f", "\r"}

\* filenameReservedRegex: [<>:"/\\|?*\x00-\x1F]
ReservedChars == {"<", ">", ":", "\"", "/", "\\", "|", "?", "*"} \cup ControlChars

\* the check of the replacement string: an error only for a replacement that
\* holds a reserved and a control character
FilenamifyErr(replacement) ==
  IF replacement \in ReservedChars /\ replacement \in ControlChars
    THEN "reserved replacement" ELSE "nil"

\* a variant of ReplaceReserved that takes the space for a reserved character
ReplaceReservedAndSpace(str) ==
  [i \in 1..Len(str) |->
     IF str[i] \in ReservedChars \cup {" "} THEN Replacement ELSE str[i]]

\* a variant of ReplaceReserved that leaves "<" in place
ReplaceReservedButLt(str) ==
  [i \in 1..Len(str) |->
     IF str[i] \in ReservedChars \ {"<"} THEN Replacement ELSE str[i]]

\* filenameReservedRegex.ReplaceAllString and
\* reControlCharsRegex.ReplaceAllString: every reserved or control character
\* becomes the replacement
ReplaceReserved(str) ==
  [i \in 1..Len(str) |-> IF str[i] \in ReservedChars THEN Replacement ELSE str[i]]

\* the number of dots str starts with
RECURSIVE LeadingDots(_)
LeadingDots(str) ==
  IF str # <<>> /\ str[1] = "." THEN 1 + LeadingDots(Tail(str)) ELSE 0

\* reRelativePathRegex (^\.+) .ReplaceAllString: the dots a name starts with
\* become one replacement
ReplaceRelative(str) ==
  LET d == LeadingDots(str) IN
  IF d = 0 THEN str ELSE <<Replacement>> \o SubSeq(str, d + 1, Len(str))

\* a variant of TrimRepeated that collapses nothing
TrimRepeatedOff(str) == str

\* trimRepeated: two or more replacements in a row become one
RECURSIVE TrimRepeated(_)
TrimRepeated(str) ==
  IF Len(str) < 2 THEN str
  ELSE IF str[1] = Replacement /\ str[2] = Replacement
    THEN TrimRepeated(Tail(str))
  ELSE <<str[1]>> \o TrimRepeated(Tail(str))

\* a variant of StripOuter that strips nothing
StripOuterOff(str) == str

\* stripOuter: a replacement at the start and one at the end are removed
StripOuter(str) ==
  LET a == IF str # <<>> /\ str[1] = Replacement THEN Tail(str) ELSE str
  IN IF a # <<>> /\ Last(a) = Replacement THEN Front(a) ELSE a

\* lower case of the letters the reserved names are spelt with
ToLower(c) ==
  CASE c = "A" -> "a" [] c = "C" -> "c" [] c = "L" -> "l" [] c = "M" -> "m"
    [] c = "N" -> "n" [] c = "O" -> "o" [] c = "P" -> "p" [] c = "R" -> "r"
    [] c = "T" -> "t" [] c = "U" -> "u" [] c = "X" -> "x" [] OTHER -> c

\* filenameReservedWindowsNamesRegex: (?i)^(con|prn|aux|nul|com[0-9]|lpt[0-9])$
IsWindowsReservedName(str) ==
  LET low == [i \in 1..Len(str) |-> ToLower(str[i])] IN
  \/ low \in {<<"c", "o", "n">>, <<"p", "r", "n">>,
              <<"a", "u", "x">>, <<"n", "u", "l">>}
  \/ /\ Len(low) = 4
     /\ SubSeq(low, 1, 3) \in {<<"c", "o", "m">>, <<"l", "p", "t">>}
     /\ low[4] \in {"0", "1", "2", "3", "4", "5", "6", "7", "8", "9"}

\* a variant of Filenamify that strips the outer replacement of a name of any
\* length (without the len(str) > 1 guard)
FilenamifyAlwaysStrip(str) ==
  LET replaced == ReplaceRelative(ReplaceReserved(str))
      stripped == StripOuter(TrimRepeated(replaced))
      named    == IF IsWindowsReservedName(stripped)
                    THEN stripped \o <<Replacement>> ELSE stripped
  IN SubSeq(named, 1, Min(MAX_FILENAME_LENGTH, Len(named)))

\* filenamify.Filenamify(str, Options{Replacement: "_"}), the string it returns
Filenamify(str) ==
  LET replaced == ReplaceRelative(ReplaceReserved(str))
      trimmed  == TrimRepeated(replaced)
      stripped == IF Len(trimmed) > 1 THEN StripOuter(trimmed) ELSE trimmed
      named    == IF IsWindowsReservedName(stripped)
                    THEN stripped \o <<Replacement>> ELSE stripped
  IN SubSeq(named, 1, Min(MAX_FILENAME_LENGTH, Len(named)))

(***************************************************************************)
(* fjoin.Join                                                              *)
(***************************************************************************)
\* a variant of NamifyElems without the skip of empty atoms (line 29)
RECURSIVE NamifyElemsNoSkip(_, _)
NamifyElemsNoSkip(acc, splitted) ==
  IF splitted = <<>> THEN acc
  ELSE NamifyElemsNoSkip(Append(acc, Filenamify(splitted[1])), Tail(splitted))

\* the inner loop (lines 28-37) over the atoms of one cleaned argument: every
\* non-empty atom is filenamified and appended
RECURSIVE NamifyElems(_, _)
NamifyElems(acc, splitted) ==
  IF splitted = <<>> THEN acc
  ELSE IF splitted[1] = <<>> THEN NamifyElems(acc, Tail(splitted))
  ELSE NamifyElems(Append(acc, Filenamify(splitted[1])), Tail(splitted))

\* one iteration of the outer loop (lines 22-38): what namified is after part
NamifyPart(acc, part) ==
  IF part = <<>> THEN acc
  ELSE NamifyElems(acc, Split(Clean(part)))

\* a variant of AbsFlag that lets any argument make the result absolute
AbsFlagAnyPart(ps) == \E i \in DOMAIN ps : IsAbs(ps[i])

\* line 20: the absoluteness flag, taken from the first argument as passed
AbsFlag(ps) == IsAbs(ps[1])

\* lines 40-44: the path returned for the atoms collected
Finish(abs, atoms) ==
  LET j == FilepathJoin(atoms) IN
  IF abs THEN <<Separator>> \o j ELSE j

Init ==
  /\ IsInput(parts)
  /\ pc = "call"
  /\ idx = 0
  /\ namified = <<>>
  /\ isAbs = FALSE
  /\ joined = <<>>
  /\ err = "nil"
  /\ CallsIdle /\ TestIdle /\ DocsIdle /\ FnIdle

\* lines 15-20: the call starts; parts[0] of an empty argument list is an
\* index out of range, a run-time panic
JoinEnter ==
  /\ pc = "call"
  /\ IF parts = <<>>
       THEN /\ pc' = "panic"
            /\ UNCHANGED <<idx, isAbs>>
       ELSE /\ pc' = "loop"
            /\ idx' = 1
            /\ isAbs' = AbsFlag(parts)
  /\ UNCHANGED <<parts, namified, joined, err>>
  /\ UNCHANGED <<calls, test, docVars, fnVars>>

\* lines 22-38: one iteration of the range loop over parts; an error of the
\* sanitizer returns at once with the empty path
JoinPart ==
  /\ pc = "loop"
  /\ idx <= Len(parts)
  /\ LET e == FilenamifyErr(Replacement)
         hasElem == parts[idx] # <<>>
                    /\ \E k \in DOMAIN Split(Clean(parts[idx])) :
                          Split(Clean(parts[idx]))[k] # <<>>
     IN IF hasElem /\ e # "nil"
          THEN /\ err' = e
               /\ pc' = "done"
               /\ UNCHANGED <<idx, namified>>
          ELSE /\ namified' = NamifyPart(namified, parts[idx])
               /\ idx' = idx + 1
               /\ UNCHANGED <<pc, err>>
  /\ UNCHANGED <<parts, isAbs, joined>>
  /\ UNCHANGED <<calls, test, docVars, fnVars>>

\* lines 40-44: the atoms are joined and the leading separator put back
JoinReturn ==
  /\ pc = "loop"
  /\ idx > Len(parts)
  /\ joined' = Finish(isAbs, namified)
  /\ pc' = "done"
  /\ UNCHANGED <<parts, idx, namified, isAbs, err>>
  /\ UNCHANGED <<calls, test, docVars, fnVars>>

Next == JoinEnter \/ JoinPart \/ JoinReturn

Spec == Init /\ [][Next]_vars

\* what Join returns for ps, the call taken as a whole
RECURSIVE NamifyAll(_, _)
NamifyAll(acc, ps) ==
  IF ps = <<>> THEN acc ELSE NamifyAll(NamifyPart(acc, ps[1]), Tail(ps))

JoinOf(ps) == Finish(AbsFlag(ps), NamifyAll(<<>>, ps))

TypeOK ==
  /\ pc \in {"call", "loop", "done", "panic"}
  /\ idx \in 0..(Len(parts) + 1)
  /\ isAbs \in BOOLEAN

(***************************************************************************)
(* Vocabulary of the properties.                                           *)
(***************************************************************************)
Returned == pc = "done" /\ err = "nil"

NonEmptyOf(seq) == SelectSeq(seq, LAMBDA x : x # <<>>)

\* the components of a path: the pieces between its separators, a leading
\* separator set aside; the empty path and the root have none
Components(path) ==
  LET body == IF IsAbs(path) THEN Tail(path) ELSE path IN
  IF body = <<>> THEN <<>> ELSE Split(body)

HasDoubledSeparator(path) ==
  \E i \in 1..(Len(path) - 1) : path[i] = Separator /\ path[i + 1] = Separator

OnlySeparators(seg) ==
  seg # <<>> /\ \A i \in DOMAIN seg : seg[i] = Separator

\* seg with every run of separators reduced to one separator and a separator
\* at its end removed (a segment that is only separators is left alone)
RECURSIVE CollapseSeps(_)
CollapseSeps(seg) ==
  IF Len(seg) < 2 THEN seg
  ELSE IF seg[1] = Separator /\ seg[2] = Separator THEN CollapseSeps(Tail(seg))
  ELSE <<seg[1]>> \o CollapseSeps(Tail(seg))

TidySeg(seg) ==
  LET c == CollapseSeps(seg) IN
  IF Len(c) > 1 /\ Last(c) = Separator THEN Front(c) ELSE c

\* ps without the segments that are only separators, and without the extra
\* separators inside the others
TidyParts(ps) ==
  LET keep == {i \in DOMAIN ps : ~OnlySeparators(ps[i])}
      pick[i \in 0..Len(ps)] ==
        IF i = 0 THEN <<>>
        ELSE IF i \in keep THEN Append(pick[i - 1], TidySeg(ps[i]))
        ELSE pick[i - 1]
  IN pick[Len(ps)]

\* the first non-empty segment of ps, when there is one
HasNonEmpty(ps) == \E i \in DOMAIN ps : ps[i] # <<>>
FirstNonEmpty(ps) == NonEmptyOf(ps)[1]

C2_AbsFromFirstNonEmpty ==
  (Returned /\ HasNonEmpty(parts)) =>
    (IsAbs(joined) <=> IsAbs(FirstNonEmpty(parts)))

(***************************************************************************)
(* C3: empty arguments are ignored: the call returns what the call without *)
(* its empty arguments returns, wherever the empty arguments stand.        *)
(***************************************************************************)
C3_EmptySegmentsIgnored ==
  (Returned /\ HasNonEmpty(parts)) => joined = JoinOf(NonEmptyOf(parts))

CharsOf(ps) == UNION {{ps[i][j] : j \in DOMAIN ps[i]} : i \in DOMAIN ps}

C5_NoUnsafeCharacter ==
  Returned =>
    \A k \in DOMAIN Components(joined) :
      \A j \in DOMAIN Components(joined)[k] :
        LET c == Components(joined)[k][j] IN
        /\ c \notin ReservedChars
        /\ c = Replacement \/ c \in CharsOf(parts)

\* an argument with a reserved character between safe ones: the component
\* has the replacement where the reserved character stood
C5_Witness ==
  /\ Returned
  /\ Len(parts) = 1
  /\ \E i \in DOMAIN parts[1] : parts[1][i] = "<"
  /\ Len(joined) = 3 /\ joined[2] = Replacement /\ joined[1] = "a"

(***************************************************************************)
(* Atoms and the sanitization the specification describes (section 4.1,    *)
(* step 3), written out independently of Filenamify.                       *)
(***************************************************************************)
\* the atoms Join sanitizes: the non-empty pieces of the cleaned non-empty
\* arguments, in order
RECURSIVE RawAtoms(_)
RawAtoms(ps) ==
  IF ps = <<>> THEN <<>>
  ELSE (IF ps[1] = <<>> THEN <<>> ELSE NonEmptyOf(Split(Clean(ps[1]))))
         \o RawAtoms(Tail(ps))

IsUnsafe(c) == c \in ReservedChars

AllUnsafe(a) == \A i \in DOMAIN a : IsUnsafe(a[i])

HasUnsafe(a) == \E i \in DOMAIN a : IsUnsafe(a[i])

\* an unsafe character at the very start or the very end of the atom
HasEdgeRun(a) == a # <<>> /\ (IsUnsafe(a[1]) \/ IsUnsafe(Last(a)))

\* an unsafe character with a safe one somewhere before and somewhere after
HasInteriorRun(a) ==
  \E i, j, k \in DOMAIN a :
    i < j /\ j < k /\ ~IsUnsafe(a[i]) /\ IsUnsafe(a[j]) /\ ~IsUnsafe(a[k])

RECURSIVE DropLeadingUnsafe(_)
DropLeadingUnsafe(a) ==
  IF a # <<>> /\ IsUnsafe(a[1]) THEN DropLeadingUnsafe(Tail(a)) ELSE a

RECURSIVE DropTrailingUnsafe(_)
DropTrailingUnsafe(a) ==
  IF a # <<>> /\ IsUnsafe(Last(a)) THEN DropTrailingUnsafe(Front(a)) ELSE a

\* every maximal run of unsafe characters becomes one replacement
RECURSIVE RunsToReplacement(_)
RunsToReplacement(a) ==
  IF a = <<>> THEN <<>>
  ELSE IF IsUnsafe(a[1])
    THEN <<Replacement>> \o RunsToReplacement(DropLeadingUnsafe(a))
  ELSE <<a[1]>> \o RunsToReplacement(Tail(a))

\* the sanitized atom as the specification describes it: runs at the edges
\* removed, runs inside replaced by one "_", an all-unsafe atom is "_"
RefSanitize(a) ==
  IF AllUnsafe(a) THEN <<Replacement>>
  ELSE RunsToReplacement(DropTrailingUnsafe(DropLeadingUnsafe(a)))

\* an atom the sanitizer's other rules leave alone: it does not begin with a
\* dot, each "_" of it stands between two safe characters other than "_", it
\* is no longer than the length limit and its sanitized form is no reserved
\* device name
Quiet(a) ==
  /\ a # <<>> /\ a[1] # "."
  /\ \A i \in DOMAIN a :
       a[i] = Replacement =>
         /\ 1 < i /\ i < Len(a)
         /\ ~IsUnsafe(a[i - 1]) /\ a[i - 1] # Replacement
         /\ ~IsUnsafe(a[i + 1]) /\ a[i + 1] # Replacement
  /\ Len(a) <= MAX_FILENAME_LENGTH
  /\ ~IsWindowsReservedName(RefSanitize(a))

\* the sanitized atoms, namified, stand one for one for the atoms, and every
\* atom in Scope has Expect of it as its sanitized atom
AtomsGive(Scope(_), Expect(_)) ==
  Returned =>
    /\ Len(namified) = Len(RawAtoms(parts))
    /\ \A k \in DOMAIN RawAtoms(parts) :
         Scope(RawAtoms(parts)[k]) => namified[k] = Expect(RawAtoms(parts)[k])

\* a[i..j] is a maximal run of unsafe characters strictly inside a
InteriorRunAt(a, i, j) ==
  /\ 1 < i /\ i <= j /\ j < Len(a)
  /\ \A m \in i..j : IsUnsafe(a[m])
  /\ ~IsUnsafe(a[i - 1]) /\ ~IsUnsafe(a[j + 1])

EdgeCore(a) == DropTrailingUnsafe(DropLeadingUnsafe(a))

C7_EdgeRunRemoved ==
  /\ AtomsGive(LAMBDA a : HasEdgeRun(a) /\ ~AllUnsafe(a) /\ Quiet(a), RefSanitize)
  /\ Returned =>
       \A k \in DOMAIN RawAtoms(parts) :
         LET a == RawAtoms(parts)[k] IN
         (HasEdgeRun(a) /\ ~AllUnsafe(a)) =>
           IF IsUnsafe(a[1]) /\ EdgeCore(a)[1] = "."
             THEN namified[k] # <<>> /\ namified[k][1] = "."
             ELSE namified[k] = Filenamify(EdgeCore(a))

\* Join("a", "/<a") = "a/a": the run in front of the atom leaves nothing
\* behind
C7_Witness ==
  /\ Returned
  /\ parts = <<<<"a">>, <<"/", "<", "a">>>>
  /\ HasEdgeRun(RawAtoms(parts)[2])
  /\ joined = <<"a", "/", "a">>

C9_SafeAtomUnchanged ==
  AtomsGive(LAMBDA a : ~HasUnsafe(a), LAMBDA a : a)

\* the claim for the atoms the sanitizer's other rules leave alone
C9_SafeAtomUnchangedQuiet ==
  AtomsGive(LAMBDA a : ~HasUnsafe(a) /\ Quiet(a), LAMBDA a : a)

\* a one-atom call with a space in the atom returns the atom
C9_Witness ==
  /\ Returned
  /\ Len(parts) = 1
  /\ Len(RawAtoms(parts)) = 1
  /\ \E i \in DOMAIN parts[1] : parts[1][i] = " "
  /\ ~HasUnsafe(RawAtoms(parts)[1]) /\ Quiet(RawAtoms(parts)[1])
  /\ Len(parts[1]) = 3
  /\ joined = parts[1]

(***************************************************************************)
(* C10: the components of the returned path are exactly the sanitized      *)
(* non-empty atoms of the cleaned arguments, in input order, one separator *)
(* between neighbours; an atom gives the same component whether it arrives *)
(* inside an argument or as an argument of its own.                        *)
(***************************************************************************)
SanitizedAtoms(ps) ==
  [k \in DOMAIN RawAtoms(ps) |-> Filenamify(RawAtoms(ps)[k])]

C10_ComponentsAreAtoms ==
  Returned =>
    /\ Components(joined) = SanitizedAtoms(parts)
    /\ joined = (IF isAbs THEN <<Separator>> ELSE <<>>)
                  \o StringsJoin(SanitizedAtoms(parts))
    /\ RawAtoms(parts) # <<>> =>
         Components(JoinOf(RawAtoms(parts))) = Components(joined)

\* two arguments that give three atoms, not all alike
C10_Witness ==
  /\ Returned
  /\ Len(parts) = 2
  /\ Len(RawAtoms(parts)) = 3
  /\ Len(Components(joined)) = 3
  /\ Components(joined)[1] # Components(joined)[2]

(***************************************************************************)
(* C11: Join called with an empty argument sequence returns the empty      *)
(* string and no error; it does not fail on the first element, which does  *)
(* not exist.                                                              *)
(***************************************************************************)
C11_EmptyCallReturnsEmpty ==
  parts = <<>> =>
    /\ pc # "panic"
    /\ pc = "done" => (joined = <<>> /\ err = "nil")

(***************************************************************************)
(* The error return of the sanitizer.  filenamify.Filenamify called with   *)
(* the replacement "_" returns no error (FilenamifyErr), so the branch of  *)
(* lines 33-35 is not taken in Spec.  SpecFaulty adds the outcome the      *)
(* branch is written for: the call of line 32 returns an error for one of  *)
(* the atoms.                                                              *)
(***************************************************************************)
\* the atoms of one argument: the non-empty pieces of the cleaned argument
\* (lines 23-31)
PartAtoms(part) ==
  IF part = <<>> THEN <<>> ELSE NonEmptyOf(Split(Clean(part)))

\* a variant of ErrorPath that returns what has been collected so far
ErrorPathPartial(atoms) == FilepathJoin(atoms)

\* line 34: the path returned beside an error, return "", err
ErrorPath(atoms) == <<>>

\* lines 28-35: the sanitizer fails on the f-th atom of argument idx; the
\* atoms before it have been appended to namified, and the call returns at
\* once
JoinPartSanitizerFails ==
  /\ pc = "loop"
  /\ idx <= Len(parts)
  /\ \E f \in DOMAIN PartAtoms(parts[idx]) :
       LET atoms == PartAtoms(parts[idx])
           upto  == namified \o [k \in 1..(f - 1) |-> Filenamify(atoms[k])]
       IN /\ namified' = upto
          /\ joined' = ErrorPath(upto)
  /\ err' = "sanitizer error"
  /\ pc' = "done"
  /\ UNCHANGED <<parts, idx, isAbs>>
  /\ UNCHANGED <<calls, test, docVars, fnVars>>

NextFaulty == JoinEnter \/ JoinPart \/ JoinReturn \/ JoinPartSanitizerFails

SpecFaulty == Init /\ [][NextFaulty]_vars

(***************************************************************************)
(* C12: when sanitizing an atom fails, Join stops at that atom and returns *)
(* that error with the empty string as path: the atoms sanitized are the   *)
(* ones before the failing atom and no more, and no partly joined path is  *)
(* returned.                                                               *)
(***************************************************************************)
C12_SanitizerErrorAborts ==
  (pc = "done" /\ err # "nil") =>
    /\ err = "sanitizer error"
    /\ joined = <<>>
    /\ idx <= Len(parts)
    /\ Len(namified) < Len(RawAtoms(parts))
    /\ namified = SubSeq(SanitizedAtoms(parts), 1, Len(namified))
    /\ Len(namified) >= Len(RawAtoms(SubSeq(parts, 1, idx - 1)))
    /\ Len(namified) < Len(RawAtoms(SubSeq(parts, 1, idx)))

\* the sanitizer fails on the second of three atoms: one atom has been
\* sanitized, one is left unvisited, and the path returned is empty
C12_Witness ==
  /\ pc = "done" /\ err = "sanitizer error"
  /\ Len(RawAtoms(parts)) = 3
  /\ Len(namified) = 1
  /\ joined = <<>>

(***************************************************************************)
(* C14: Join terminates on every finite argument sequence: the call always *)
(* reaches a return, with a path or an error.  SpecFair is Spec with the   *)
(* call running on: a step that can be taken is taken.                     *)
(***************************************************************************)
SpecFair == Spec /\ WF_vars(Next)

C14_CallReturns == <>(pc = "done")

(***************************************************************************)
(* C15: the result of Join is filepath.Clean-ed: cleaning the returned     *)
(* path gives the same path.                                               *)
(***************************************************************************)
C15_ResultIsCleaned == Returned => Clean(joined) = joined

(***************************************************************************)
(* Join called from several goroutines, each of which calls it again and   *)
(* again.  A call has its own frame: its arguments and the locals opts,    *)
(* namified, isAbs, joined (lines 17-20 and 40); the package has no        *)
(* variable of its own.  The steps of the calls interleave in any order.   *)
(* The arguments are never the empty sequence here (a panic would end the  *)
(* whole program).                                                         *)
(***************************************************************************)
\* the number of goroutines that call Join
MaxCalls == 2

Goroutines == 1..MaxCalls

\* the argument sequences the goroutines call Join with
CallInputs ==
  { << <<"a">> >>,
    << <<"/", "a">>, <<"<">> >>,
    << <<>>, <<"/", "a", "<", "a">> >>,
    << <<"a">>, <<"<", "a">>, <<"a", "/", "/">> >> }

\* what a goroutine has before its first call
NoFrame ==
  [parts |-> <<>>, pc |-> "idle", idx |-> 0, namified |-> <<>>,
   isAbs |-> FALSE, joined |-> <<>>, err |-> "nil", last |-> <<>>]

\* a variant of Namified in which the calls share one accumulator, that of
\* the first goroutine (a package-level variable instead of a local)
NamifiedShared(g) == calls[1].namified

\* line 19: var namified []string, a local of the call
Namified(g) == calls[g].namified

InitCalls ==
  /\ calls = [g \in Goroutines |-> NoFrame]
  /\ JoinIdle /\ TestIdle /\ DocsIdle /\ FnIdle

\* lines 15-20: goroutine g calls Join with the arguments ps; the frame of
\* an earlier call of g is gone, what that call returned is remembered in
\* last (for the properties only)
CallEnter(g, ps) ==
  /\ calls[g].pc \in {"idle", "done"}
  /\ calls' = [calls EXCEPT ![g] =
       [parts |-> ps, pc |-> "loop", idx |-> 1, namified |-> <<>>,
        isAbs |-> AbsFlag(ps), joined |-> <<>>, err |-> "nil",
        last |-> IF calls[g].pc = "done"
                   THEN <<calls[g].parts, calls[g].joined, calls[g].err>>
                   ELSE calls[g].last]]
  /\ UNCHANGED <<joinVars, test, docVars, fnVars>>

\* lines 22-38: one iteration of the range loop of g's call
CallPart(g) ==
  /\ calls[g].pc = "loop"
  /\ calls[g].idx <= Len(calls[g].parts)
  /\ calls' = [calls EXCEPT
       ![g].namified = NamifyPart(Namified(g), calls[g].parts[calls[g].idx]),
       ![g].idx = calls[g].idx + 1]
  /\ UNCHANGED <<joinVars, test, docVars, fnVars>>

\* lines 40-44: g's call returns
CallReturn(g) ==
  /\ calls[g].pc = "loop"
  /\ calls[g].idx > Len(calls[g].parts)
  /\ calls' = [calls EXCEPT
       ![g].joined = Finish(calls[g].isAbs, Namified(g)),
       ![g].pc = "done"]
  /\ UNCHANGED <<joinVars, test, docVars, fnVars>>

NextCalls ==
  \E g \in Goroutines :
    \/ \E ps \in CallInputs : CallEnter(g, ps)
    \/ CallPart(g)
    \/ CallReturn(g)

SpecCalls == InitCalls /\ [][NextCalls]_vars

(***************************************************************************)
(* C13: Join keeps no state between or across calls: every call, whatever  *)
(* other calls run before it or interleaved with it, returns what the call *)
(* returns alone; two calls with the same arguments, one after the other   *)
(* or at the same time, return the same result.                            *)
(***************************************************************************)
C13_CallsAreIndependent ==
  \A g \in Goroutines :
    calls[g].pc = "done" =>
      /\ calls[g].err = "nil"
      /\ calls[g].joined = JoinOf(calls[g].parts)
      /\ (calls[g].last # <<>> /\ calls[g].last[1] = calls[g].parts) =>
           calls[g].last = <<calls[g].parts, calls[g].joined, calls[g].err>>
      /\ \A h \in Goroutines :
           (calls[h].pc = "done" /\ calls[h].parts = calls[g].parts) =>
             calls[h].joined = calls[g].joined

\* the first goroutine has returned from the repetition of its earlier call
\* while the second is in the middle of a call with other arguments that
\* has sanitized an atom already
C13_Witness ==
  /\ calls[1].pc = "done"
  /\ calls[1].last # <<>> /\ calls[1].last[1] = calls[1].parts
  /\ Len(calls[1].parts) = 3
  /\ calls[1].joined = <<"a", "/", "a", "/", "a">>
  /\ calls[2].pc = "loop" /\ calls[2].idx = 2
  /\ calls[2].namified # <<>>
  /\ calls[2].parts # calls[1].parts

(***************************************************************************)
(* Part 2: the temp-dir helpers of the tests.  tempDir (man_test.go) and   *)
(* tempdir.TempDirWith hand a test its temporary directory and register a  *)
(* cleanup, preserve, that copies the directory to a permanent place.  The *)
(* variable test is the one test that calls the helper: the arguments of   *)
(* the call, the phase of the test, whether it has failed, the cleanups    *)
(* registered, the copies attempted and the lines logged.                  *)
(***************************************************************************)
\* the largest number of levels of a test name (TestX/sub/subsub)
MaxLevels == 3

\* the name of the test function and the names subtests are run under
TestFuncName == <<"T">>
SubtestNames == {<<"a">>, <<"<">>, <<"<", ".">>}

\* t.Name(): the levels joined by "/"
TestNames ==
  {StringsJoin(<<TestFuncName>> \o subs) :
     subs \in UNION {[1..n -> SubtestNames] : n \in 0..(MaxLevels - 1)}}

\* the levels of a test name
Levels(name) == Split(name)

\* cfg.Dir: unset, relative, absolute
PreserveDirs == {<<>>, <<"d">>, <<"/", "d">>}

\* testsCfg.preserve.dir of man_test.go, "/tmp/cobraman"
TestsCfgDir == <<"/", "d">>

\* a time formatted by Format("Mon_150405.0000")
Stamp == <<"M", "_", "1", ".", "0">>

Policies == {"failing", "always", "never"}

\* man_test.go:77-105, filenamifyJoin: Join without the skip of empty
\* arguments
RECURSIVE NamifyAllNoSkip(_, _)
NamifyAllNoSkip(acc, ps) ==
  IF ps = <<>> THEN acc
  ELSE NamifyAllNoSkip(NamifyElems(acc, Split(Clean(ps[1]))), Tail(ps))

\* a variant of FilenamifyJoinOf that lets any argument make the result
\* absolute
FilenamifyJoinOfAnyAbs(ps) ==
  Finish(AbsFlagAnyPart(ps), NamifyAllNoSkip(<<>>, ps))

FilenamifyJoinOf(ps) == Finish(AbsFlag(ps), NamifyAllNoSkip(<<>>, ps))

\* whether the helper registers the cleanup: TempDirWith returns before
\* t.Cleanup under the never policy, tempDir registers it in any case
Registers(helper, policy) == helper = "tempDir" \/ policy # "never"

\* TempDirWith: invokedAtStr, empty when testInvokedAt is nil; tempDir
\* formats the package variable testInvokedAt
InvokedAtStr(invokedAt) == IF invokedAt = "nil" THEN <<>> ELSE Stamp

\* a variant of DoPreserve that takes the failing policy for the always
\* policy when the test has passed
DoPreserveAnyPolicy(policy, failed) == policy # "never"

\* doPreserve := sinceAlways || sinceFailin
DoPreserve(policy, failed) ==
  policy = "always" \/ (policy = "failing" /\ failed)

\* the arguments of the Join call of preserve
TargetArgs(dir, prefix, name) == <<dir, prefix, name>>

\* toDir: the path the directory is copied to
TargetOf(helper, dir, prefix, name) ==
  IF helper = "tempDir" THEN FilenamifyJoinOf(TargetArgs(dir, prefix, name))
  ELSE JoinOf(TargetArgs(dir, prefix, name))

\* a variant of FailedAfter that fails the test when preserve meets an
\* error (t.Errorf in place of t.Logf)
FailedAfterErrorf(failed, joinErr, copyErr) ==
  failed \/ joinErr # "nil" \/ copyErr # "nil"

\* t.Failed() after preserve: t.Logf and return leave it as it was
FailedAfter(failed, joinErr, copyErr) == failed

InitTest ==
  /\ \E helper \in {"tempDir", "TempDirWith"}, policy \in Policies,
        dir \in PreserveDirs, invokedAt \in {"nil", "set"}, name \in TestNames :
       /\ helper = "tempDir" => (dir = TestsCfgDir /\ invokedAt = "set")
       /\ test = [helper |-> helper, policy |-> policy, dir |-> dir,
                  invokedAt |-> invokedAt, name |-> name,
                  pc |-> "start", failed |-> FALSE, cleanups |-> <<>>,
                  ran |-> 0, failedAtCleanup |-> FALSE,
                  joinErr |-> "nil", copyErr |-> "nil",
                  copies |-> <<>>, log |-> <<>>]
  /\ JoinIdle /\ CallsIdle /\ DocsIdle /\ FnIdle

\* the test calls the helper: tmpDir := t.TempDir(), then t.Cleanup with the
\* closure over tmpDir, cfg and the prefix
TempDir ==
  /\ test.pc = "start"
  /\ test' = [test EXCEPT
       !.pc = "running",
       !.cleanups =
          IF Registers(test.helper, test.policy)
            THEN Append(test.cleanups,
                        [dir |-> <<"t", "m", "p">>,
                         prefix |-> InvokedAtStr(test.invokedAt)])
            ELSE test.cleanups]
  /\ UNCHANGED <<joinVars, calls, docVars, fnVars>>

\* t.Fail, t.Error, ...: by the test itself, or by another cleanup before or
\* after preserve has run
TestFails ==
  /\ test.pc \in {"running", "cleanup", "late"}
  /\ ~test.failed
  /\ test' = [test EXCEPT !.failed = TRUE]
  /\ UNCHANGED <<joinVars, calls, docVars, fnVars>>

\* the test function returns; the cleanups run next
TestEnds ==
  /\ test.pc = "running"
  /\ test' = [test EXCEPT !.pc = "cleanup"]
  /\ UNCHANGED <<joinVars, calls, docVars, fnVars>>

\* what preserve leaves behind when Join has returned joinErr and, if it was
\* called, os.CopyFS has returned copyErr
AfterPreserve(c, joinErr, copyErr) ==
  LET toDir == TargetOf(test.helper, test.dir, c.prefix, test.name)
      does  == DoPreserve(test.policy, test.failed)
  IN [test EXCEPT
       !.cleanups = Front(test.cleanups),
       !.ran = test.ran + 1,
       !.failedAtCleanup = test.failed,
       !.joinErr = IF does THEN joinErr ELSE "nil",
       !.copyErr = IF does /\ joinErr = "nil" THEN copyErr ELSE "nil",
       !.copies = IF does /\ joinErr = "nil"
                    THEN Append(test.copies, [to |-> toDir, from |-> c.dir])
                    ELSE test.copies,
       !.log = IF ~does THEN test.log
               ELSE IF joinErr # "nil"
                 THEN Append(test.log, "WARNING: failed to filenamify")
               ELSE IF copyErr # "nil"
                 THEN Append(test.log, "WARNING: failed to preserve")
               ELSE Append(test.log, "info: preserved temp dir"),
       !.failed = IF does THEN FailedAfter(test.failed, joinErr, copyErr)
                  ELSE test.failed]

\* the cleanup registered last runs: preserve, with the outcome of os.CopyFS
\* left to the file system
Preserve ==
  /\ test.pc = "cleanup"
  /\ test.cleanups # <<>>
  /\ \E copyErr \in {"nil", "copy error"} :
       test' = AfterPreserve(Last(test.cleanups),
                             FilenamifyErr(Replacement), copyErr)
  /\ UNCHANGED <<joinVars, calls, docVars, fnVars>>

\* preserve with a sanitizer that fails: Join returns an error (it has an
\* atom to sanitize, the test name at least)
PreserveJoinFails ==
  /\ test.pc = "cleanup"
  /\ test.cleanups # <<>>
  /\ test' = AfterPreserve(Last(test.cleanups), "sanitizer error", "nil")
  /\ UNCHANGED <<joinVars, calls, docVars, fnVars>>

\* no cleanup of the helper is left; what follows is the rest of the
\* test's teardown
CleanupDone ==
  /\ test.pc = "cleanup"
  /\ test.cleanups = <<>>
  /\ test' = [test EXCEPT !.pc = "late"]
  /\ UNCHANGED <<joinVars, calls, docVars, fnVars>>

NextTest == TempDir \/ TestFails \/ TestEnds \/ Preserve \/ CleanupDone

SpecTest == InitTest /\ [][NextTest]_vars

NextTestFaulty == NextTest \/ PreserveJoinFails

SpecTestFaulty == InitTest /\ [][NextTestFaulty]_vars

\* a cleanup of the helper has been registered at some time
CleanupRegistered == test.cleanups # <<>> \/ test.ran > 0

\* the directory is copied: preserve has called os.CopyFS on it
Copied == test.copies # <<>>

\* the cleanups of the helper have run
CleanupsOver == test.pc = "late"

(***************************************************************************)
(* C16: the helper preserves the temporary directory according to the      *)
(* policy and nothing else: under the never policy no cleanup is           *)
(* registered and the directory is never copied; under the always policy   *)
(* the directory is copied at cleanup whether the test failed or not;      *)
(* under the failing policy it is copied at cleanup exactly when the test  *)
(* has failed by then.                                                     *)
(***************************************************************************)
\* the claim as stated
C16_PolicyDecides ==
  /\ test.policy = "never" => (~CleanupRegistered /\ ~Copied)
  /\ (test.policy = "always" /\ CleanupsOver) => Copied
  /\ (test.policy = "failing" /\ CleanupsOver) =>
       (Copied <=> test.failedAtCleanup)

\* the claim with the registration told apart by helper: TempDirWith
\* registers no cleanup under the never policy, tempDir of man_test.go
\* registers it under every policy; the directory is copied at most once,
\* from the temporary directory, and only by the cleanup
C16_PolicyDecidesCopy ==
  /\ test.policy = "never" =>
       /\ ~Copied
       /\ test.helper = "TempDirWith" => ~CleanupRegistered
  /\ test.helper = "tempDir" => (test.pc # "start" => CleanupRegistered)
  /\ (test.policy = "always" /\ CleanupsOver) => Copied
  /\ (test.policy = "failing" /\ CleanupsOver) =>
       (Copied <=> test.failedAtCleanup)
  /\ Len(test.copies) <= 1
  /\ test.pc \in {"start", "running"} => ~Copied
  /\ \A k \in DOMAIN test.copies : test.copies[k].from = <<"t", "m", "p">>

\* under the failing policy a test that fails only after the cleanup has
\* run is not copied
C16_Witness ==
  /\ test.policy = "failing"
  /\ CleanupsOver
  /\ test.failed /\ ~test.failedAtCleanup
  /\ test.ran = 1
  /\ ~Copied

(***************************************************************************)
(* C17: an error of Join inside preserve is not fatal to the test: the     *)
(* helper logs a warning, does not attempt the copy and leaves the test's  *)
(* pass/fail status as it was; an error of the copy is only logged too.    *)
(***************************************************************************)
C17_ErrorsOnlyLogged ==
  [][(test.pc = "cleanup" /\ test'.ran = test.ran + 1) =>
       /\ test'.failed = test.failed
       /\ test'.pc = "cleanup"
       /\ test'.joinErr # "nil" =>
            /\ test'.copies = test.copies
            /\ test'.log = Append(test.log, "WARNING: failed to filenamify")
       /\ test'.copyErr # "nil" =>
            test'.log = Append(test.log, "WARNING: failed to preserve")]_vars

\* a passing test under the always policy whose Join call failed: a
\* warning, no copy, and the test still passes
C17_Witness ==
  /\ test.policy = "always"
  /\ CleanupsOver
  /\ test.joinErr = "sanitizer error"
  /\ test.log = <<"WARNING: failed to filenamify">>
  /\ ~Copied
  /\ ~test.failed

(***************************************************************************)
(* C18: the directory is copied to Join(cfg.Dir, timestamp, t.Name());     *)
(* when testInvokedAt is nil the timestamp is empty and is ignored, so the *)
(* path is Join(cfg.Dir, t.Name()) with no component for the timestamp;    *)
(* each level of the test name becomes a directory component of its own.   *)
(***************************************************************************)
C18_TargetPath ==
  \A k \in DOMAIN test.copies :
    LET to == test.copies[k].to
        ts == InvokedAtStr(test.invokedAt)
    IN /\ to = JoinOf(<<test.dir, ts, test.name>>)
       /\ test.invokedAt = "nil" => to = JoinOf(<<test.dir, test.name>>)
       /\ Len(Components(to)) =
            Len(Components(JoinOf(<<test.dir>>)))
              + (IF ts = <<>> THEN 0 ELSE 1) + Len(Levels(test.name))

(***************************************************************************)
(* Part 3: cobraman.GenerateDocs, which writes one page file for a command *)
(* and for each of its available subcommands, children first.              *)
(*                                                                         *)
(* A command tree has the commands 1..n, 1 the root, parent[c] the parent  *)
(* of c (a lower number); the children of a command are listed in the      *)
(* order of their numbers, which is the order of their names (Commands()   *)
(* sorts by name).  kind[c] says how the command was declared: "run" has a *)
(* Run function, "group" has none, "hidden" has a Run function and Hidden  *)
(* set.  The recursion of GenerateDocs is the variable stack, one frame    *)
(* per call that has not returned.                                         *)
(***************************************************************************)
\* the largest number of commands of a tree
MaxCmds == 3

CmdKinds == {"run", "group", "hidden"}

\* the names of the commands (Use), by number; the root may have none
CmdNames == <<<<"r">>, <<"a">>, <<"b">>, <<"c">>, <<"e">>>>

NameOf(t, c) == IF c = 1 THEN t.rootName ELSE CmdNames[c]

IsCmdTree(t) ==
  \E n \in 1..MaxCmds :
    \E par \in [1..n -> 0..(n - 1)], kind \in [1..n -> CmdKinds],
       rootName \in {<<>>, CmdNames[1]} :
      /\ par[1] = 0
      /\ \A c \in 2..n : 1 <= par[c] /\ par[c] < c
      /\ t = [n |-> n, parent |-> par, kind |-> kind, rootName |-> rootName]

\* cmd.Commands(): the children of c, in order
Commands(t, c) ==
  SelectSeq([i \in 1..t.n |-> i], LAMBDA i : t.parent[i] = c)

\* cmd.CommandPath(): the names from the root down to c, a space between
RECURSIVE CommandPath(_, _)
CommandPath(t, c) ==
  IF t.parent[c] = 0 THEN NameOf(t, c)
  ELSE CommandPath(t, t.parent[c]) \o <<" ">> \o NameOf(t, c)

\* cmd.Runnable(): Run or RunE is set
Runnable(t, c) == t.kind[c] \in {"run", "hidden"}

\* cmd.IsAvailableCommand(): not hidden (nor deprecated, nor the help
\* command), and runnable or with an available subcommand
RECURSIVE IsAvailableCommand(_, _)
IsAvailableCommand(t, c) ==
  /\ t.kind[c] # "hidden"
  /\ \/ Runnable(t, c)
     \/ \E i \in 1..t.n : t.parent[i] = c /\ IsAvailableCommand(t, i)

\* cmd.IsAdditionalHelpTopicCommand(): not runnable, and every subcommand
\* an additional help topic too
RECURSIVE IsAdditionalHelpTopicCommand(_, _)
IsAdditionalHelpTopicCommand(t, c) ==
  /\ ~Runnable(t, c)
  /\ \A i \in 1..t.n : t.parent[i] = c => IsAdditionalHelpTopicCommand(t, i)

\* a variant of Skipped that skips no command
SkippedNone(t, c) == FALSE

\* line 104: the children the loop passes over
Skipped(t, c) ==
  ~IsAvailableCommand(t, c) \/ IsAdditionalHelpTopicCommand(t, c)

\* the extension "use_section" a template is registered with when its files
\* are to end in the section
UseSection == <<"use_section">>

\* RegisterTemplate("troff", "-", "use_section", troffManTemplate)
TroffTemplate == [found |-> TRUE, sep |-> <<"-">>, ext |-> UseSection]

\* RegisterTemplate("mdoc", "-", "use_section", mdocManTemplate)
MdocTemplate == [found |-> TRUE, sep |-> <<"-">>, ext |-> UseSection]

\* the markdown template: separator "_", extension "md"
MarkdownTemplate == [found |-> TRUE, sep |-> <<"_">>, ext |-> <<"m", "d">>]

\* templ.GetTemplate(name): separator, extension and template of a
\* registered name, a nil template for any other name
GetTemplate(name) ==
  CASE name = "troff" -> TroffTemplate
    [] name = "mdoc" -> MdocTemplate
    [] name = "markdown" -> MarkdownTemplate
    [] OTHER -> [found |-> FALSE, sep |-> <<>>, ext |-> <<>>]

TemplateNames == {"troff", "mdoc", "markdown", "no exist"}

\* a variant of FileSuffix that takes the extension as it is registered
FileSuffixAsRegistered(ext, section) == ext

\* lines 144-147: the suffix of the file names
FileSuffix(ext, section) == IF ext = UseSection THEN section ELSE ext

\* a variant of validate that keeps a separator and a suffix an earlier call
\* has set
ValidateKeepPrivate(o, templateName) ==
  LET section == IF o.Section = <<>> THEN <<"1">> ELSE o.Section
      t == GetTemplate(templateName)
  IN [Section |-> section,
      Date |-> IF o.Date = "nil" THEN "now" ELSE o.Date,
      fileCmdSeparator |-> IF o.fileCmdSeparator = <<>> THEN t.sep
                           ELSE o.fileCmdSeparator,
      fileSuffix |-> IF o.fileSuffix = <<>> THEN FileSuffix(t.ext, section)
                     ELSE o.fileSuffix]

\* validate, lines 131-147, for a registered template: the Options value it
\* leaves behind
Validate(o, templateName) ==
  LET section == IF o.Section = <<>> THEN <<"1">> ELSE o.Section
      t == GetTemplate(templateName)
  IN [Section |-> section,
      Date |-> IF o.Date = "nil" THEN "now" ELSE o.Date,
      fileCmdSeparator |-> t.sep,
      fileSuffix |-> FileSuffix(t.ext, section)]

\* validate for a name that is not registered: the defaults are set, then
\* it panics (lines 131-142)
ValidateUnknown(o) ==
  [o EXCEPT !.Section = IF o.Section = <<>> THEN <<"1">> ELSE o.Section,
            !.Date = IF o.Date = "nil" THEN "now" ELSE o.Date]

\* strings.ReplaceAll(str, " ", sep)
RECURSIVE ReplaceSpaces(_, _)
ReplaceSpaces(str, sep) ==
  IF str = <<>> THEN <<>>
  ELSE (IF str[1] = " " THEN sep ELSE <<str[1]>>)
         \o ReplaceSpaces(Tail(str), sep)

\* line 113
BaseName(t, c, o) == ReplaceSpaces(CommandPath(t, c), o.fileCmdSeparator)

\* a variant of MissingName that lets every name pass
MissingNameNever(basename) == FALSE

\* line 114
MissingName(basename) == basename = <<>>

\* line 117
FileName(dir, basename, o) ==
  FilepathJoin(<<dir, basename \o <<".">> \o o.fileSuffix>>)

ErrMissingCommandName == "you need a command name to have a man page"

\* lines 99-101
DirOrDot(directory) == IF directory = <<>> THEN <<".">> ELSE directory

InitDocs ==
  /\ IsCmdTree(cmdTree)
  /\ \E directory \in {<<>>, <<"d">>}, templateName \in TemplateNames :
       docArgs = [directory |-> directory, templateName |-> templateName]
  /\ \E section \in {<<>>, <<"8">>} :
       opts = [Section |-> section, Date |-> "nil",
               fileCmdSeparator |-> <<>>, fileSuffix |-> <<>>]
  /\ stack = <<>>
  /\ attempts = <<>>
  /\ ret = "none"
  /\ JoinIdle /\ CallsIdle /\ TestIdle /\ FnIdle

Top == stack[Len(stack)]

\* the call of the frame on top has reached the end of its loop
LoopOver == Top.i > Len(Commands(cmdTree, Top.cmd))

\* lines 96-101, the call by the user: validate, which panics on a name that
\* is not registered, and the default of the directory
GenCall ==
  /\ ret = "none" /\ stack = <<>> /\ attempts = <<>>
  /\ IF GetTemplate(docArgs.templateName).found
       THEN /\ opts' = Validate(opts, docArgs.templateName)
            /\ stack' = <<[cmd |-> 1, i |-> 1,
                           dir |-> DirOrDot(docArgs.directory)]>>
            /\ ret' = ret
       ELSE /\ opts' = ValidateUnknown(opts)
            /\ ret' = "panic"
            /\ stack' = stack
  /\ UNCHANGED <<cmdTree, docArgs, attempts>>
  /\ UNCHANGED <<joinVars, calls, test, fnVars>>

\* lines 103-106: the loop passes over a child
GenSkip ==
  /\ stack # <<>> /\ ~LoopOver
  /\ Skipped(cmdTree, Commands(cmdTree, Top.cmd)[Top.i])
  /\ stack' = [stack EXCEPT ![Len(stack)].i = Top.i + 1]
  /\ UNCHANGED <<cmdTree, docArgs, opts, attempts, ret>>
  /\ UNCHANGED <<joinVars, calls, test, fnVars>>

\* lines 107 and 96-101: the recursive call for a child
GenDescend ==
  /\ stack # <<>> /\ ~LoopOver
  /\ ~Skipped(cmdTree, Commands(cmdTree, Top.cmd)[Top.i])
  /\ opts' = Validate(opts, docArgs.templateName)
  /\ stack' = Append(stack, [cmd |-> Commands(cmdTree, Top.cmd)[Top.i],
                             i |-> 1, dir |-> DirOrDot(Top.dir)])
  /\ UNCHANGED <<cmdTree, docArgs, attempts, ret>>
  /\ UNCHANGED <<joinVars, calls, test, fnVars>>

\* a variant of ReturnFrom in which the caller goes on with its next child
\* whatever the call returned
ReturnFromUnchecked(e) ==
  IF Len(stack) = 1 THEN /\ stack' = <<>>
                         /\ ret' = e
  ELSE /\ stack' = [Front(stack) EXCEPT ![Len(stack) - 1].i = @ + 1]
       /\ ret' = ret

\* the call on top returns e: an error goes up through every caller at
\* once (line 108; no caller has a file open yet), nil lets the caller go
\* on with its next child
ReturnFrom(e) ==
  IF e # "nil" THEN /\ stack' = <<>>
                    /\ ret' = e
  ELSE IF Len(stack) = 1 THEN /\ stack' = <<>>
                              /\ ret' = "nil"
  ELSE /\ stack' = [Front(stack) EXCEPT ![Len(stack) - 1].i = @ + 1]
       /\ ret' = ret

\* lines 113-116: the command has no name
GenMissingName ==
  /\ stack # <<>> /\ LoopOver
  /\ MissingName(BaseName(cmdTree, Top.cmd, opts))
  /\ ReturnFrom(ErrMissingCommandName)
  /\ UNCHANGED <<cmdTree, docArgs, opts, attempts>>
  /\ UNCHANGED <<joinVars, calls, test, fnVars>>

\* lines 117-127: the file is created, the page generated into it and the
\* file closed; the call returns what f.Close returned (the deferred
\* function sets err last).  Whether os.Create, the template and f.Close
\* fail is left to the file system and the template
GenFile ==
  /\ stack # <<>> /\ LoopOver
  /\ ~MissingName(BaseName(cmdTree, Top.cmd, opts))
  /\ \E createErr \in {"nil", "create error"},
        pageErr \in {"nil", "template error"},
        closeErr \in {"nil", "close error"} :
       LET name == FileName(Top.dir, BaseName(cmdTree, Top.cmd, opts), opts)
       IN IF createErr # "nil"
            THEN /\ pageErr = "nil" /\ closeErr = "nil"
                 /\ attempts' = Append(attempts,
                      [cmd |-> Top.cmd, name |-> name, create |-> createErr,
                       page |-> "not run", close |-> "not run"])
                 /\ ReturnFrom(createErr)
            ELSE /\ attempts' = Append(attempts,
                      [cmd |-> Top.cmd, name |-> name, create |-> "nil",
                       page |-> pageErr, close |-> closeErr])
                 /\ ReturnFrom(closeErr)
  /\ UNCHANGED <<cmdTree, docArgs, opts>>
  /\ UNCHANGED <<joinVars, calls, test, fnVars>>

NextDocs == GenCall \/ GenSkip \/ GenDescend \/ GenMissingName \/ GenFile

SpecDocs == InitDocs /\ [][NextDocs]_vars

(***************************************************************************)
(* Vocabulary of the properties of GenerateDocs.                           *)
(***************************************************************************)
DocsReturned == ret \notin {"none", "idle"}

RegisteredTemplate == docArgs.templateName \in {"troff", "mdoc", "markdown"}

\* the commands GenerateDocs is to write a file for: the command it is
\* called on, and every descendant that is available, and no additional
\* help topic, along with all the commands between the two
RECURSIVE InScope(_, _)
InScope(t, c) ==
  c = 1 \/ (~Skipped(t, c) /\ InScope(t, t.parent[c]))

CmdsInScope == {c \in 1..cmdTree.n : InScope(cmdTree, c)}

\* the attempts that did not go well: the file was not created, or not
\* closed
FailedAttempts ==
  {k \in DOMAIN attempts :
     attempts[k].create # "nil" \/ attempts[k].close = "close error"}

\* the file name the documentation gives for command c
ExpectedFileName(c) ==
  LET tn     == docArgs.templateName
      sep    == IF tn = "markdown" THEN <<"_">> ELSE <<"-">>
      suffix == IF tn = "markdown" THEN <<"m", "d">>
                ELSE IF opts.Section = <<>> THEN <<"1">> ELSE opts.Section
      path   == CommandPath(cmdTree, c)
      stem   == [i \in DOMAIN path |-> IF path[i] = " " THEN sep[1] ELSE path[i]]
      inDir  == IF docArgs.directory = <<>> THEN <<>>
                ELSE docArgs.directory \o <<"/">>
  IN inDir \o stem \o <<".">> \o suffix

(***************************************************************************)
(* C19: GenerateDocs called on a command whose command path is empty       *)
(* returns ErrMissingCommandName and creates no file for that command,     *)
(* whichever registered template is used.                                  *)
(***************************************************************************)
\* the claim as stated
C19_MissingName ==
  (DocsReturned /\ RegisteredTemplate /\ CommandPath(cmdTree, 1) = <<>>) =>
    /\ ret = ErrMissingCommandName
    /\ \A k \in DOMAIN attempts : attempts[k].cmd # 1

\* the claim with the errors of the subcommands, which are written first:
\* no file is created for the command; the call returns
\* ErrMissingCommandName when the files of all its subcommands in scope
\* have been written, and the error of the subcommand that failed
\* otherwise, which is then the last file tried
C19_MissingNameAfterChildren ==
  (DocsReturned /\ RegisteredTemplate /\ CommandPath(cmdTree, 1) = <<>>) =>
    /\ \A k \in DOMAIN attempts : attempts[k].cmd # 1
    /\ ret # "nil"
    /\ FailedAttempts = {} =>
         /\ ret = ErrMissingCommandName
         /\ {attempts[k].cmd : k \in DOMAIN attempts} = CmdsInScope \ {1}
    /\ FailedAttempts # {} =>
         /\ FailedAttempts = {Len(attempts)}
         /\ ret = IF attempts[Len(attempts)].create # "nil"
                    THEN attempts[Len(attempts)].create
                    ELSE attempts[Len(attempts)].close

\* a root without a name and with two subcommands: their files are written
\* with the markdown template, then the call returns the error
C19_Witness ==
  /\ ret = ErrMissingCommandName
  /\ CommandPath(cmdTree, 1) = <<>>
  /\ docArgs.templateName = "markdown"
  /\ Len(attempts) = 2
  /\ FailedAttempts = {}

Undocumented(t, c) ==
  ~IsAvailableCommand(t, c) \/ IsAdditionalHelpTopicCommand(t, c)

\* neither c nor a command above it is such a command
RECURSIVE Documentable(_, _)
Documentable(t, c) ==
  /\ ~Undocumented(t, c)
  /\ t.parent[c] = 0 \/ Documentable(t, t.parent[c])

\* the same, the command GenerateDocs is called on left aside
RECURSIVE DocumentableBelow(_, _)
DocumentableBelow(t, c) ==
  c = 1 \/ (~Undocumented(t, c) /\ DocumentableBelow(t, t.parent[c]))

\* the commands a file was created for
CmdsWithFile ==
  {attempts[k].cmd : k \in {j \in DOMAIN attempts : attempts[j].create = "nil"}}

\* passing over a child does not end the loop: once the call has returned
\* nil, every sibling of such a child that is not such a command itself has
\* its file
SiblingsStillWritten ==
  ret = "nil" =>
    \A c, s \in 2..cmdTree.n :
      (/\ cmdTree.parent[c] = cmdTree.parent[s]
       /\ DocumentableBelow(cmdTree, cmdTree.parent[c])
       /\ Undocumented(cmdTree, c) /\ ~Undocumented(cmdTree, s))
        => s \in CmdsWithFile

\* the claim as stated, of every command of the tree
C21_NoFileForUnavailable ==
  /\ \A c \in CmdsWithFile : Documentable(cmdTree, c)
  /\ SiblingsStillWritten

\* the claim of the commands below the one GenerateDocs is called on: that
\* command is never tested (lines 103-106 test the children only) and gets
\* its file whatever it is
C21_NoFileForUnavailableBelow ==
  /\ \A k \in DOMAIN attempts : DocumentableBelow(cmdTree, attempts[k].cmd)
  /\ SiblingsStillWritten
  /\ (ret = "nil" /\ Undocumented(cmdTree, 1)) => 1 \in CmdsWithFile

\* a command with a hidden child and a runnable one: the call has returned
\* with the files of the runnable child and of the command, and no other
C21_Witness ==
  /\ ret = "nil"
  /\ cmdTree.n = 3
  /\ cmdTree.parent = <<0, 1, 1>>
  /\ cmdTree.kind = <<"run", "hidden", "run">>
  /\ CmdsWithFile = {1, 3}
  /\ Len(attempts) = 2

(***************************************************************************)
(* Part 4: validate called any number of times on one Options value, as    *)
(* GenerateDocs does once per command and GenerateOnePage once per page.   *)
(***************************************************************************)
\* the largest number of calls on one Options value
MaxValidate == 3

\* a variant of TemplateFound that takes every name for a registered one
TemplateFoundAlways(name) == TRUE

\* lines 139-140: GetTemplate has given a template for the name
TemplateFound(name) == GetTemplate(name).found

\* the Options values a caller can build: Section and Date are exported,
\* the separator and the suffix are not and start empty
CallerOptions ==
  {[Section |-> section, Date |-> date,
    fileCmdSeparator |-> <<>>, fileSuffix |-> <<>>] :
     section \in {<<>>, <<"8">>}, date \in {"nil", "caller's date"}}

InitValidate ==
  /\ \E o \in CallerOptions :
       valid = [orig |-> o, opts |-> o, names |-> <<>>, pc |-> "ready"]
  /\ PageIdle /\ TextIdle /\ CmpIdle
  /\ JoinIdle /\ CallsIdle /\ TestIdle /\ DocsIdle

\* validate(&opts, name), lines 130-148
ValidateCall(name) ==
  /\ valid # <<>> /\ valid.pc = "ready"
  /\ Len(valid.names) < MaxValidate
  /\ valid' = IF TemplateFound(name)
                THEN [valid EXCEPT !.opts = Validate(@, name),
                                   !.names = Append(@, name)]
                ELSE [valid EXCEPT !.opts = ValidateUnknown(@),
                                   !.names = Append(@, name),
                                   !.pc = "panic"]
  /\ UNCHANGED <<page, text, cmp>>
  /\ UNCHANGED <<joinVars, calls, test, docVars>>

NextValidate == \E name \in TemplateNames : ValidateCall(name)

SpecValidate == InitValidate /\ [][NextValidate]_vars

(***************************************************************************)
(* C22: after any sequence of validate calls on one Options value with     *)
(* registered template names, Section is the caller's Section if that was  *)
(* not empty and "1" otherwise, a Date the caller gave is unchanged, and    *)
(* the separator and the suffix are those of the template of the last call *)
(* only ("-" and the Section for troff and mdoc, "_" and "md" for          *)
(* markdown), whatever the templates of the calls before.                  *)
(***************************************************************************)
C22_ValidateSequence ==
  (valid # <<>> /\ valid.pc = "ready" /\ valid.names # <<>>) =>
    LET last == valid.names[Len(valid.names)]
        o    == valid.opts
    IN /\ o.Section = IF valid.orig.Section = <<>> THEN <<"1">>
                      ELSE valid.orig.Section
       /\ valid.orig.Date # "nil" => o.Date = valid.orig.Date
       /\ last \in {"troff", "mdoc"} =>
            o.fileCmdSeparator = <<"-">> /\ o.fileSuffix = o.Section
       /\ last = "markdown" =>
            o.fileCmdSeparator = <<"_">> /\ o.fileSuffix = <<"m", "d">>

\* markdown, then troff, on an Options value without a Section: the suffix
\* has gone from "md" to "1"
C22_Witness ==
  /\ valid.pc = "ready"
  /\ valid.names = <<"markdown", "troff">>
  /\ valid.orig.Section = <<>>
  /\ valid.orig.Date = "caller's date"
  /\ valid.opts.fileSuffix = <<"1">>
  /\ valid.opts.fileCmdSeparator = <<"-">>

(***************************************************************************)
(* Part 5: cobraman.GenerateOnePage, which fills in the values of one page *)
(* and executes the template on them.  The call is three steps: validate   *)
(* (line 202), the values (lines 204-296), the template (lines 299-305).   *)
(* Of the values, the flag arrays and the header fields other than Section *)
(* are left out.  A text is empty or not; the texts of the annotations,    *)
(* of the Options fields and of Example differ, so that the values show    *)
(* where a text came from.                                                 *)
(***************************************************************************)
NoText == <<>>

\* cmd.Annotations: a key that is not in the map reads as the empty string
AnnotationSets ==
  [environment : {NoText, <<"A", "e">>}, files : {NoText, <<"A", "f">>},
   bugs : {NoText, <<"A", "b">>}, examples : {NoText, <<"A", "x">>}]

\* cmd.Example
ExampleTexts == {NoText, <<"E", "x">>}

\* the fields Environment, Files and Bugs of Options
OptionTexts ==
  [Environment : {NoText, <<"O", "e">>}, Files : {NoText, <<"O", "f">>},
   Bugs : {NoText, <<"O", "b">>}]

\* a variant of SectionText that takes the annotation only when there is
\* nothing else
SectionTextOtherFirst(alt, other) ==
  IF other # NoText THEN other ELSE alt

\* lines 250-257 (and 261-267, 272-278, 283-289): the text of a section, the
\* annotation before the Options field or Example; empty when both are
SectionText(alt, other) ==
  IF other # NoText \/ alt # NoText
    THEN (IF alt # NoText THEN alt ELSE other)
    ELSE NoText

\* one entry of the see-also list, lines 338-342, 350-354, 362-366
SeeAlsoEntry(t, c, section, kind) ==
  [CmdPath |-> CommandPath(t, c), Section |-> section,
   IsParent |-> kind = "parent", IsChild |-> kind = "child",
   IsSibling |-> kind = "sibling"]

\* a variant of SiblingSkipped that does not look at the name
SiblingSkippedByAvailability(t, cmd, c) == Skipped(t, c)

\* line 347: the siblings the loop passes over, the command itself (found by
\* its name) among them
SiblingSkipped(t, cmd, c) ==
  Skipped(t, c) \/ NameOf(t, c) = NameOf(t, cmd)

\* generateSeeAlsos(cmd, section), lines 335-371
GenerateSeeAlsos(t, cmd, section) ==
  LET p        == t.parent[cmd]
      siblings == IF p = 0 THEN <<>>
                  ELSE SelectSeq(Commands(t, p),
                                 LAMBDA c : ~SiblingSkipped(t, cmd, c))
      children == SelectSeq(Commands(t, cmd), LAMBDA c : ~Skipped(t, c))
  IN (IF p = 0 THEN <<>> ELSE <<SeeAlsoEntry(t, p, section, "parent")>>)
     \o [i \in DOMAIN siblings |->
           SeeAlsoEntry(t, siblings[i], section, "sibling")]
     \o [i \in DOMAIN children |->
           SeeAlsoEntry(t, children[i], section, "child")]

\* lines 204-296: the values the template is executed on
PageValues(t, cmd, ann, example, fields, o) ==
  [Section |-> o.Section,
   CommandPath |-> CommandPath(t, cmd),
   SubCommands |-> SelectSeq(Commands(t, cmd), LAMBDA c : ~Skipped(t, c)),
   Environment |-> SectionText(ann.environment, fields.Environment),
   Files |-> SectionText(ann.files, fields.Files),
   Bugs |-> SectionText(ann.bugs, fields.Bugs),
   Examples |-> SectionText(ann.examples, example),
   SeeAlsos |-> GenerateSeeAlsos(t, cmd, o.Section)]

\* a command of its own, with a Run function
SingleCommand ==
  [n |-> 1, parent |-> <<0>>, kind |-> <<"run">>, rootName |-> CmdNames[1]]

NoAnnotations ==
  [environment |-> NoText, files |-> NoText, bugs |-> NoText,
   examples |-> NoText]

NoOptionTexts == [Environment |-> NoText, Files |-> NoText, Bugs |-> NoText]

\* the calls: every combination of texts on a single command, and every
\* command of every tree without texts
PageInputs ==
  {[tree |-> SingleCommand, cmd |-> 1, ann |-> ann, example |-> example,
    fields |-> fields] :
     ann \in AnnotationSets, example \in ExampleTexts, fields \in OptionTexts}
  \cup
  UNION {{[tree |-> [n |-> n, parent |-> par, kind |-> kind,
                     rootName |-> rootName],
           cmd |-> cmd, ann |-> NoAnnotations, example |-> NoText,
           fields |-> NoOptionTexts] :
            par \in {f \in [1..n -> 0..(n - 1)] :
                       f[1] = 0 /\ \A c \in 2..n : 1 <= f[c] /\ f[c] < c},
            kind \in [1..n -> CmdKinds], rootName \in {<<>>, CmdNames[1]},
            cmd \in 1..n} : n \in 1..MaxCmds}

InitPage ==
  /\ \E in \in PageInputs, templateName \in TemplateNames,
        o \in {c \in CallerOptions : c.Date = "nil"} :
       page = [tree |-> in.tree, cmd |-> in.cmd, ann |-> in.ann,
               example |-> in.example, fields |-> in.fields,
               templateName |-> templateName, opts |-> o,
               pc |-> "start", values |-> <<>>,
               out |-> "nothing", ret |-> "none"]
  /\ ValidIdle /\ TextIdle /\ CmpIdle
  /\ JoinIdle /\ CallsIdle /\ TestIdle /\ DocsIdle

\* line 202: validate, which panics on a name that is not registered
PageValidate ==
  /\ page # <<>> /\ page.pc = "start"
  /\ page' = IF TemplateFound(page.templateName)
               THEN [page EXCEPT !.opts = Validate(@, page.templateName),
                                 !.pc = "validated"]
               ELSE [page EXCEPT !.opts = ValidateUnknown(@),
                                 !.pc = "panic", !.ret = "panic"]
  /\ UNCHANGED <<valid, text, cmp>>
  /\ UNCHANGED <<joinVars, calls, test, docVars>>

\* lines 204-296
PageFill ==
  /\ page # <<>> /\ page.pc = "validated"
  /\ page' = [page EXCEPT
                !.values = PageValues(page.tree, page.cmd, page.ann,
                                      page.example, page.fields, page.opts),
                !.pc = "values"]
  /\ UNCHANGED <<valid, text, cmp>>
  /\ UNCHANGED <<joinVars, calls, test, docVars>>

\* lines 299-305: the template is executed on the values and writes the
\* page to w; when it fails, part of the page may have been written
PageExecute ==
  /\ page # <<>> /\ page.pc = "values"
  /\ \E e \in {"nil", "template error"} :
       \E out \in IF e = "nil" THEN {"page"}
                  ELSE {"nothing", "part of the page"} :
         page' = [page EXCEPT !.pc = "done", !.ret = e, !.out = out]
  /\ UNCHANGED <<valid, text, cmp>>
  /\ UNCHANGED <<joinVars, calls, test, docVars>>

NextPage == PageValidate \/ PageFill \/ PageExecute

SpecPage == InitPage /\ [][NextPage]_vars

\* the values have been filled in
PageFilled == page.pc \in {"values", "done"}

(***************************************************************************)
(* C24: for each of the ENVIRONMENT, FILES and BUGS sections the text of   *)
(* the page is the command's annotation (man-environment-section,          *)
(* man-files-section, man-bugs-section) when that is not empty, the field  *)
(* of Options otherwise, and there is no section when both are empty;      *)
(* EXAMPLES likewise, the man-examples-section annotation before the       *)
(* command's Example.  (The templates print a section if and only if its   *)
(* value is not empty.)                                                    *)
(***************************************************************************)
\* what the claim gives for one section
AnnotationFirst(annotation, other, value) ==
  /\ annotation # NoText => value = annotation
  /\ annotation = NoText => value = other
  /\ (annotation = NoText /\ other = NoText) <=> value = NoText

C24_AnnotationBeforeOption ==
  (page # <<>> /\ PageFilled) =>
    /\ AnnotationFirst(page.ann.environment, page.fields.Environment,
                       page.values.Environment)
    /\ AnnotationFirst(page.ann.files, page.fields.Files, page.values.Files)
    /\ AnnotationFirst(page.ann.bugs, page.fields.Bugs, page.values.Bugs)
    /\ AnnotationFirst(page.ann.examples, page.example, page.values.Examples)

\* a page with all three cases: ENVIRONMENT from the annotation though the
\* field is set, FILES from the field, no BUGS section, EXAMPLES from the
\* annotation though Example is set
C24_Witness ==
  /\ page # <<>> /\ page.pc = "done" /\ page.ret = "nil"
  /\ page.ann.environment # NoText /\ page.fields.Environment # NoText
  /\ page.values.Environment = page.ann.environment
  /\ page.ann.files = NoText /\ page.values.Files = <<"O", "f">>
  /\ page.ann.bugs = NoText /\ page.fields.Bugs = NoText
  /\ page.values.Bugs = NoText
  /\ page.example # NoText /\ page.values.Examples = <<"A", "x">>

(***************************************************************************)
(* C30: the see-also list of a command has, in this order, its parent (if  *)
(* any), its available siblings, its available children; never the command *)
(* itself and never a hidden, unavailable or additional-help-topic         *)
(* command; every entry carries the section of the page, and exactly one   *)
(* of IsParent, IsSibling, IsChild is set on each entry.                   *)
(***************************************************************************)
\* the command an entry of the list names
SeeAlsoCmd(entry) ==
  CHOOSE c \in 1..page.tree.n : CommandPath(page.tree, c) = entry.CmdPath

\* the commands the list is to name, in order
SeeAlsoParent ==
  IF page.tree.parent[page.cmd] = 0 THEN <<>>
  ELSE <<page.tree.parent[page.cmd]>>

SeeAlsoSiblings ==
  IF page.tree.parent[page.cmd] = 0 THEN <<>>
  ELSE SelectSeq(Commands(page.tree, page.tree.parent[page.cmd]),
                 LAMBDA c : c # page.cmd /\ ~Undocumented(page.tree, c))

SeeAlsoChildren ==
  SelectSeq(Commands(page.tree, page.cmd),
            LAMBDA c : ~Undocumented(page.tree, c))

\* the list names these commands in this order, each with the section of
\* the page and the one flag of its group
SeeAlsoInOrder ==
  LET list == page.values.SeeAlsos
      want == SeeAlsoParent \o SeeAlsoSiblings \o SeeAlsoChildren
      np   == Len(SeeAlsoParent)
      ns   == Len(SeeAlsoSiblings)
  IN /\ Len(list) = Len(want)
     /\ \A i \in DOMAIN list :
          /\ list[i].CmdPath = CommandPath(page.tree, want[i])
          /\ list[i].Section = page.values.Section
          /\ list[i].IsParent = (i <= np)
          /\ list[i].IsSibling = (np < i /\ i <= np + ns)
          /\ list[i].IsChild = (np + ns < i)
          /\ list[i].CmdPath # CommandPath(page.tree, page.cmd)

\* the claim as stated, of every entry of the list
C30_SeeAlsos ==
  (page # <<>> /\ PageFilled) =>
    /\ SeeAlsoInOrder
    /\ \A i \in DOMAIN page.values.SeeAlsos :
         ~Undocumented(page.tree, SeeAlsoCmd(page.values.SeeAlsos[i]))

\* the claim with the parent listed whatever it is: only the siblings and
\* the children are tested (lines 347 and 360)
C30_SeeAlsosParentUntested ==
  (page # <<>> /\ PageFilled) =>
    /\ SeeAlsoInOrder
    /\ \A i \in DOMAIN page.values.SeeAlsos :
         ~page.values.SeeAlsos[i].IsParent =>
           ~Undocumented(page.tree, SeeAlsoCmd(page.values.SeeAlsos[i]))

\* the page of a command with a parent, a runnable sibling and section 8:
\* the parent, then the sibling
C30_Witness ==
  /\ page # <<>> /\ page.pc = "done"
  /\ page.tree.n = 3 /\ page.tree.parent = <<0, 1, 1>> /\ page.cmd = 2
  /\ page.tree.kind = <<"run", "run", "run">>
  /\ page.values.Section = <<"8">>
  /\ Len(page.values.SeeAlsos) = 2
  /\ page.values.SeeAlsos[1].IsParent
  /\ page.values.SeeAlsos[2].IsSibling
  /\ page.values.SeeAlsos[2].CmdPath = CommandPath(page.tree, 3)

(***************************************************************************)
(* The three ways into validate: validate itself, GenerateDocs and         *)
(* GenerateOnePage, each called on its own.                                *)
(***************************************************************************)
InitEntry == InitValidate \/ InitDocs \/ InitPage

NextEntry == NextValidate \/ NextDocs \/ NextPage

SpecEntry == InitEntry /\ [][NextEntry]_vars

(***************************************************************************)
(* C23: with a template name that is not registered validate panics, it    *)
(* does not return an error; so GenerateDocs and GenerateOnePage called    *)
(* with such a name panic before a file is created and before anything is  *)
(* written.                                                                *)
(***************************************************************************)
Unregistered(name) == name \notin {"troff", "mdoc", "markdown"}

C23_UnknownTemplatePanics ==
  /\ (valid # <<>> /\ valid.names # <<>>
        /\ Unregistered(valid.names[Len(valid.names)])) =>
       valid.pc = "panic"
  /\ (docArgs # <<>> /\ Unregistered(docArgs.templateName)) =>
       /\ attempts = <<>> /\ stack = <<>>
       /\ ret \in {"none", "panic"}
  /\ (page # <<>> /\ Unregistered(page.templateName)) =>
       /\ page.out = "nothing" /\ page.values = <<>>
       /\ page.pc \in {"start", "panic"}
       /\ page.ret \in {"none", "panic"}

\* GenerateDocs called on a tree of three commands with the name "no exist"
\* has panicked
C23_Witness ==
  /\ ret = "panic"
  /\ docArgs.templateName = "no exist"
  /\ cmdTree.n = 3
  /\ attempts = <<>>

(***************************************************************************)
(* Part 6: templ.Backslashify, which escapes the characters troff reads as *)
(* its own.  The replacer is a package variable, built by the first call.  *)
(***************************************************************************)
\* the longest string Backslashify is called on
MaxTextLen == 4

\* the five characters of the replacer and one other
TextAlphabet == {"-", "_", "&", "\\", "~", "a"}

\* the strings of at most n characters
RECURSIVE TextsUpTo(_)
TextsUpTo(n) ==
  IF n = 0 THEN {<<>>}
  ELSE LET shorter == TextsUpTo(n - 1)
       IN shorter \cup {Append(str, c) : str \in shorter, c \in TextAlphabet}

\* line 51: the pairs of strings.NewReplacer, old and new
ReplacerPairs ==
  <<<<"-", <<"\\", "-">>>>, <<"_", <<"\\", "_">>>>, <<"&", <<"\\", "&">>>>,
    <<"\\", <<"\\", "\\">>>>, <<"~", <<"\\", "~">>>>>>

\* strings.ReplaceAll(str, old, new) for an old of one character, which the
\* variant ReplacePairByPair is made of
RECURSIVE ReplaceAllChar(_, _, _)
ReplaceAllChar(str, old, new) ==
  IF str = <<>> THEN <<>>
  ELSE (IF str[1] = old THEN new ELSE <<str[1]>>)
         \o ReplaceAllChar(Tail(str), old, new)

\* the replacement of one character by the replacer: the new of the first
\* pair whose old it is, the character itself when there is none
ReplaceChar(c) ==
  LET hits == {k \in DOMAIN ReplacerPairs : ReplacerPairs[k][1] = c}
  IN IF hits = {} THEN <<c>>
     ELSE ReplacerPairs[CHOOSE k \in hits : \A j \in hits : k <= j][2]

\* a variant of Replace that makes one pass over the string per pair
RECURSIVE ReplacePairByPair(_, _)
ReplacePairByPair(str, k) ==
  IF k > Len(ReplacerPairs) THEN str
  ELSE ReplacePairByPair(
         ReplaceAllChar(str, ReplacerPairs[k][1], ReplacerPairs[k][2]), k + 1)

\* (*strings.Replacer).Replace for olds of one character each: one pass,
\* every character of the argument replaced on its own, from position k on
RECURSIVE Replace(_, _)
Replace(str, k) ==
  IF k > Len(str) THEN <<>>
  ELSE ReplaceChar(str[k]) \o Replace(str, k + 1)

\* Backslashify(str), lines 49-54
Backslashify(str) == Replace(str, 1)

InitText ==
  /\ \E str \in TextsUpTo(MaxTextLen), replacer \in {"nil", "built"} :
       text = [str |-> str, backslashReplacer |-> replacer,
               pc |-> "start", out |-> <<>>]
  /\ ValidIdle /\ PageIdle /\ CmpIdle
  /\ JoinIdle /\ CallsIdle /\ TestIdle /\ DocsIdle

\* lines 50-52: the first call builds the replacer
BackslashifyBuild ==
  /\ text # <<>> /\ text.pc = "start"
  /\ text.backslashReplacer = "nil"
  /\ text' = [text EXCEPT !.backslashReplacer = "built"]
  /\ UNCHANGED <<valid, page, cmp>>
  /\ UNCHANGED <<joinVars, calls, test, docVars>>

\* line 53
BackslashifyReplace ==
  /\ text # <<>> /\ text.pc = "start"
  /\ text.backslashReplacer = "built"
  /\ text' = [text EXCEPT !.out = Backslashify(text.str), !.pc = "done"]
  /\ UNCHANGED <<valid, page, cmp>>
  /\ UNCHANGED <<joinVars, calls, test, docVars>>

NextText == BackslashifyBuild \/ BackslashifyReplace

SpecText == InitText /\ [][NextText]_vars

(***************************************************************************)
(* C25: Backslashify puts exactly one backslash in front of every '-',     *)
(* '_', '&', '\' and '~' and leaves every other character as it is, in one *)
(* pass: a backslash it has put in is not escaped again, so the result is  *)
(* as long as the argument plus the number of such characters in it.       *)
(***************************************************************************)
Escaped == {"-", "_", "&", "\\", "~"}

\* the number of characters to escape among the first i of str
EscapedUpTo(str, i) == Cardinality({j \in 1..i : str[j] \in Escaped})

C25_OneBackslashEach ==
  (text # <<>> /\ text.pc = "done") =>
    LET str    == text.str
        out    == text.out
        at(i)  == i + EscapedUpTo(str, i)
    IN /\ Len(out) = Len(str) + EscapedUpTo(str, Len(str))
       /\ \A i \in DOMAIN str :
            /\ out[at(i)] = str[i]
            /\ str[i] \in Escaped => out[at(i) - 1] = "\\"

\* "-\a~" has become "\-\\a\~": the backslash of the argument escaped once,
\* the ones put in not at all
C25_Witness ==
  /\ text # <<>> /\ text.pc = "done"
  /\ text.str = <<"-", "\\", "a", "~">>
  /\ text.out = <<"\\", "-", "\\", "\\", "a", "\\", "~">>

(***************************************************************************)
(* Part 7: Join next to itself and to its earlier variants.  For one       *)
(* argument list, Join is called, then Join on the path it returned, then  *)
(* filenamifyJoin (man_test.go; FilenamifyJoin of the tempdir package is   *)
(* the same code) on the argument list.                                    *)
(***************************************************************************)
\* the error a call returns: the sanitizer's, if an atom was given to it
ErrOf(atoms) == IF atoms = <<>> THEN "nil" ELSE FilenamifyErr(Replacement)

\* fjoin.go:15-45: path and error of Join(ps...)
JoinResult(ps) ==
  [path |-> JoinOf(ps), err |-> ErrOf(NamifyAll(<<>>, ps))]

\* man_test.go:78-105: path and error of filenamifyJoin(ps...)
FilenamifyJoinResult(ps) ==
  [path |-> FilenamifyJoinOf(ps), err |-> ErrOf(NamifyAllNoSkip(<<>>, ps))]

NotCalled == [path |-> <<>>, err |-> "not called"]

\* a call that is still to be made on the argument list ps
CmpStart(ps) ==
  [parts |-> ps, pc |-> "start", first |-> NotCalled, again |-> NotCalled,
   variant |-> NotCalled]

\* the argument lists of Init that are not empty (on the empty one Join and
\* its variants panic at parts[0])
InitCmp ==
  /\ \/ \E n \in 0..MaxTotalLen : \E flat \in [1..n -> MultiAlphabet] :
          \E p \in 1..MaxParts : \E cuts \in [1..(p - 1) -> 0..n] :
            NonDecreasing(cuts) /\ cmp = CmpStart(CutAt(flat, cuts))
     \/ \E n \in 0..MaxSegLen : \E str \in [1..n -> Alphabet] :
          cmp = CmpStart(<<str>>)
  /\ ValidIdle /\ PageIdle /\ TextIdle
  /\ JoinIdle /\ CallsIdle /\ TestIdle /\ DocsIdle

\* Join(parts...)
CmpJoin ==
  /\ cmp # <<>> /\ cmp.pc = "start"
  /\ cmp' = [cmp EXCEPT !.first = JoinResult(cmp.parts), !.pc = "joined"]
  /\ UNCHANGED <<valid, page, text>>
  /\ UNCHANGED <<joinVars, calls, test, docVars>>

\* Join(p) for the path p the first call returned
CmpJoinAgain ==
  /\ cmp # <<>> /\ cmp.pc = "joined" /\ cmp.first.err = "nil"
  /\ cmp' = [cmp EXCEPT !.again = JoinResult(<<cmp.first.path>>),
                        !.pc = "again"]
  /\ UNCHANGED <<valid, page, text>>
  /\ UNCHANGED <<joinVars, calls, test, docVars>>

\* filenamifyJoin(parts...)
CmpVariant ==
  /\ cmp # <<>> /\ cmp.pc = "again"
  /\ cmp' = [cmp EXCEPT !.variant = FilenamifyJoinResult(cmp.parts),
                        !.pc = "done"]
  /\ UNCHANGED <<valid, page, text>>
  /\ UNCHANGED <<joinVars, calls, test, docVars>>

NextCmp == CmpJoin \/ CmpJoinAgain \/ CmpVariant

SpecCmp == InitCmp /\ [][NextCmp]_vars

(***************************************************************************)
(* C26: Join is idempotent on its own output: when Join returns the path p *)
(* without error for some arguments, Join(p) returns p again.              *)
(***************************************************************************)
C26_JoinIdempotent ==
  (cmp # <<>> /\ cmp.pc \in {"again", "done"}) => cmp.again = cmp.first

(***************************************************************************)
(* C27: fjoin.Join and the earlier variants filenamifyJoin/FilenamifyJoin  *)
(* return the same path and error for every argument list that is not      *)
(* empty and has no empty argument; they can differ only when an argument  *)
(* is empty, which Join alone skips before cleaning.                       *)
(***************************************************************************)
HasEmptyArgument(ps) == \E i \in DOMAIN ps : ps[i] = <<>>

C27_VariantsAgree ==
  (cmp # <<>> /\ cmp.pc = "done" /\ ~HasEmptyArgument(cmp.parts)) =>
    cmp.variant = cmp.first

\* "a<a" and "a": both give "a_a/a"
C27_Witness ==
  /\ cmp # <<>> /\ cmp.pc = "done"
  /\ cmp.parts = <<<<"a", "<", "a">>, <<"a">>>>
  /\ cmp.first = [path |-> <<"a", "_", "a", "/", "a">>, err |-> "nil"]
  /\ cmp.variant = cmp.first

(***************************************************************************)
(* C28: if generating the page of a command fails (GenerateOnePage returns *)
(* an error) after the file was created, GenerateDocs returns an error     *)
(* that is not nil; a close of the file that succeeds never puts nil in    *)
(* its place.                                                              *)
(***************************************************************************)
\* the attempts in which the file was created and the page then failed
PageFailures ==
  {k \in DOMAIN attempts :
     attempts[k].create = "nil" /\ attempts[k].page = "template error"}

C28_PageErrorReturned ==
  (docArgs # <<>> /\ DocsReturned /\ PageFailures # {}) => ret # "nil"

(***************************************************************************)
(* C29: GenerateDocs works bottom-up: the file of a command is created     *)
(* only after GenerateDocs has returned without error for every one of its *)
(* available children, in their listed order; when a child returns an      *)
(* error GenerateDocs returns that error at once, without going on to the  *)
(* remaining siblings and without creating the parent's file.              *)
(***************************************************************************)
\* what the call for the command of attempt k returned
ReturnedBy(k) ==
  IF attempts[k].create # "nil" THEN attempts[k].create
  ELSE attempts[k].close

C29_BottomUp ==
  docArgs # <<>> =>
    /\ \A k \in DOMAIN attempts :
         \A d \in 2..cmdTree.n :
           (cmdTree.parent[d] = attempts[k].cmd /\ ~Undocumented(cmdTree, d))
             => \E j \in 1..(k - 1) :
                  attempts[j].cmd = d /\ ReturnedBy(j) = "nil"
    /\ \A j, k \in DOMAIN attempts :
         (j < k /\ cmdTree.parent[attempts[j].cmd] =
                     cmdTree.parent[attempts[k].cmd])
           => attempts[j].cmd < attempts[k].cmd
    /\ \A k \in DOMAIN attempts :
         ReturnedBy(k) # "nil" =>
           /\ k = Len(attempts)
           /\ stack = <<>>
           /\ ret = ReturnedBy(k)

\* a command with two runnable children: the file of the first could not
\* be created, and the call has returned that error with nothing tried for
\* the second child and for the command
C29_Witness ==
  /\ ret = "create error"
  /\ cmdTree.n = 3 /\ cmdTree.parent = <<0, 1, 1>>
  /\ cmdTree.kind = <<"run", "run", "run">>
  /\ Len(attempts) = 1
  /\ attempts[1].cmd = 2

====
